---- MODULE Spec2Model ----
(***************************************************************************)
(* Model of ical.py, the weekly calendar extractor: one run of main is the *)
(* pipeline fetch_calendar -> get_current_week_range -> parse_ical_data -> *)
(* format_events -> save_to_markdown -> existence check -> optional echo.  *)
(*                                                                         *)
(* Time is counted in ticks, TicksPerDay ticks to a calendar day, on the   *)
(* axis 0..MaxInstant that stands for datetime.min..datetime.max.  A       *)
(* date/date-time value of the feed is a record                            *)
(*     [kind, clock, off]                                                  *)
(* kind "date" (a bare date, clock = its midnight), "naive" (a date-time   *)
(* without zone), "aware" (a date-time whose zone is off ticks ahead of    *)
(* UTC) or "none" (absent).  clock is the wall-clock reading; the instant  *)
(* an aware value denotes is clock - off.                                  *)
(***************************************************************************)
EXTENDS Integers, Sequences, FiniteSets, TLC

VARIABLES pc, run, calendar_data, start_date, end_date, events,
          formatted_events, file, wrote, notice, echoed, exitCode

vars == <<pc, run, calendar_data, start_date, end_date, events,
          formatted_events, file, wrote, notice, echoed, exitCode>>

----------------------------------------------------------------------------
(* Bounds of the model *)

TicksPerDay == 2
WeekIndex == 1
MaxOff == 1
MaxDur == 1
MaxCount == 2
MaxDefs == 3
MaxEvents == 3
MaxDescLen == 3
MaxRuns == 2

(* timedelta(days=6): Monday to Sunday *)
WeekSpan == 6

FirstDay == WeekIndex * (WeekSpan + 1) - 1
LastDay == (WeekIndex + 1) * (WeekSpan + 1)
Days == FirstDay..LastDay
Todays == (WeekIndex * (WeekSpan + 1))..(WeekIndex * (WeekSpan + 1) + WeekSpan)
MaxInstant == (LastDay + 1) * TicksPerDay - 1
Clocks == (FirstDay * TicksPerDay)..MaxInstant
Offs == (0 - MaxOff)..MaxOff

----------------------------------------------------------------------------
(* Date and date-time values *)

None == [kind |-> "none", clock |-> 0, off |-> 0]
Date(day) == [kind |-> "date", clock |-> day * TicksPerDay, off |-> 0]
Naive(c) == [kind |-> "naive", clock |-> c, off |-> 0]
Aware(c, o) == [kind |-> "aware", clock |-> c, off |-> o]

IsDatetime(v) == v.kind \in {"naive", "aware"}
IsDate(v) == v.kind = "date"
Present(v) == v.kind # "none"

(* the instant of a zone-aware date-time *)
Instant(v) == v.clock - v.off

(* v.replace(tzinfo=timezone.utc): the clock reading is kept *)
ReplaceUtc(v) == Aware(v.clock, 0)

(* datetime.combine(v, time.min): midnight of v's calendar date, naive *)
CombineMin(v) == Naive((v.clock \div TicksPerDay) * TicksPerDay)

(* date.weekday(): day 0 of the axis is a Monday *)
Weekday(day) == day % (WeekSpan + 1)

(* get_current_week_range: the instants of Monday 00:00 and Sunday time.max *)
StartOfWeek(today) == today - Weekday(today)
EndOfWeek(today) == StartOfWeek(today) + WeekSpan
(* the variant of GetCurrentWeekRange whose week starts today: C10's       *)
(* agreement of the window with the titled week must fail with it          *)
GetCurrentWeekRangeFromToday(today) ==
  [start |-> today * TicksPerDay,
   end |-> (today + WeekSpan) * TicksPerDay + (TicksPerDay - 1)]

GetCurrentWeekRange(today) ==
  [start |-> StartOfWeek(today) * TicksPerDay,
   end |-> EndOfWeek(today) * TicksPerDay + (TicksPerDay - 1)]

----------------------------------------------------------------------------
(* Text: a string is a sequence of tokens; a marker or separator the code  *)
(* searches for is one token.                                              *)

Contains(s, tok) == \E i \in 1..Len(s) : s[i] = tok

(* str.split(sep): the pieces between the occurrences of sep *)
RECURSIVE Split(_, _)
Split(s, sep) ==
  IF ~Contains(s, sep) THEN <<s>>
  ELSE LET i == CHOOSE k \in 1..Len(s) :
                  s[k] = sep /\ \A j \in 1..(k - 1) : s[j] # sep
       IN <<SubSeq(s, 1, i - 1)>> \o Split(SubSeq(s, i + 1, Len(s)), sep)

----------------------------------------------------------------------------
(* parse_ical_data *)

(* the event dictionary appended to events *)
Event(c, s, e, allDay) ==
  [summary |-> c.summary, description |-> c.description,
   location |-> c.location, organizer |-> c.organizer,
   start |-> s, end |-> e, all_day |-> allDay]

(* line 83: the DTSTART line of the rule string is the start's clock       *)
(* fields formatted with a literal Z, which rrulestr reads as UTC          *)
RruleDtstart(dtstart) == Aware(dtstart.clock, 0)

(* rule.between(after, before, inc=True): the instance instants            *)
(* anchor + k * step, k < count, inside [after, before], ascending         *)
RECURSIVE RuleBetween(_, _, _, _, _)
RuleBetween(rule, anchor, after, before, k) ==
  IF k >= rule.count THEN <<>>
  ELSE LET i == Instant(anchor) + k * rule.step
       IN (IF after <= i /\ i <= before THEN <<i>> ELSE <<>>)
          \o RuleBetween(rule, anchor, after, before, k + 1)

(* lines 103-113: the duration, [some |-> FALSE] standing for None *)
Duration(c) ==
  IF Present(c.dtend) /\ IsDatetime(c.dtstart) /\ IsDatetime(c.dtend)
  THEN LET original_start ==
             IF c.dtstart.kind = "naive" /\ c.dtend.kind = "aware"
             THEN Aware(c.dtstart.clock, c.dtend.off) ELSE c.dtstart
           original_end ==
             IF c.dtstart.kind = "aware" /\ c.dtend.kind = "naive"
             THEN Aware(c.dtend.clock, c.dtstart.off) ELSE c.dtend
       IN [some |-> TRUE, ticks |-> Instant(original_end) - Instant(original_start)]
  ELSE [some |-> FALSE, ticks |-> 0]

(* line 117, "if duration:": None and timedelta(0) are both false *)
DurationTruthy(duration) == duration.some /\ duration.ticks # 0

(* datetime + timedelta raises OverflowError outside datetime.min..max *)
Overflows(t) == t < 0 \/ t > MaxInstant

(* lines 99-128: the loop over the instances, appending to events; an      *)
(* exception leaves the loop for the handler of line 129, and what was     *)
(* appended before stays in events                                         *)
RECURSIVE ExpandInstances(_, _, _)
ExpandInstances(c, instances, acc) ==
  IF instances = <<>> THEN acc
  ELSE LET event_start == Head(instances)
           duration == Duration(c)
           end_tick == event_start + duration.ticks
       IN IF DurationTruthy(duration) /\ Overflows(end_tick) THEN acc
          ELSE ExpandInstances(c, Tail(instances),
                 Append(acc, Event(c, Aware(event_start, 0),
                                   IF DurationTruthy(duration)
                                   THEN Aware(end_tick, 0) ELSE None,
                                   FALSE)))

(* lines 72-130: a component with a recurrence rule; rrulestr raises on a  *)
(* malformed rule and the handler of line 129 absorbs it                   *)
RecurringEvents(c, acc, after, before) ==
  IF ~c.rrule.valid THEN acc
  ELSE ExpandInstances(c,
         RuleBetween(c.rrule, RruleDtstart(c.dtstart), after, before, 0), acc)

(* lines 134-150: start and end of a regular event after normalisation *)
RegularStart(c) ==
  IF IsDate(c.dtstart) THEN ReplaceUtc(CombineMin(c.dtstart))
  ELSE IF c.dtstart.kind = "naive" THEN ReplaceUtc(c.dtstart)
  ELSE c.dtstart

RegularEnd(c) ==
  LET combined == IF IsDate(c.dtstart) /\ Present(c.dtend)
                  THEN CombineMin(c.dtend) ELSE c.dtend
  IN IF combined.kind = "naive" THEN ReplaceUtc(combined) ELSE combined

InRange(after, v, before) == after <= Instant(v) /\ Instant(v) <= before

(* line 165: comparing the window's date-times with an end that is still   *)
(* a bare date raises TypeError; the disjunction reaches the end only if   *)
(* the start is outside the window                                         *)
RegularRaises(c, after, before) ==
  /\ ~InRange(after, RegularStart(c), before)
  /\ IsDate(RegularEnd(c))

RegularInWeek(c, after, before) ==
  \/ InRange(after, RegularStart(c), before)
  \/ /\ Present(RegularEnd(c))
     /\ InRange(after, RegularEnd(c), before)

(* the variant of RegularEvents that puts the event first in the list:     *)
(* C9's definition order must fail with it                                 *)
RegularEventsFirst(c, acc, after, before) ==
  IF RegularInWeek(c, after, before)
  THEN <<Event(c, RegularStart(c), RegularEnd(c), IsDate(c.dtstart))>> \o acc
  ELSE acc

(* lines 133-174 *)
RegularEvents(c, acc, after, before) ==
  IF RegularInWeek(c, after, before)
  THEN Append(acc, Event(c, RegularStart(c), RegularEnd(c), IsDate(c.dtstart)))
  ELSE acc

(* lines 75 and 134: component.get('dtstart') is None, reading .dt raises; *)
(* with RegularRaises these are the exceptions of one component that reach *)
(* the handler of line 176                                                 *)
ComponentRaises(c, after, before) ==
  /\ c.name = "VEVENT"
  /\ \/ ~Present(c.dtstart)
     \/ ~c.rrule.present /\ RegularRaises(c, after, before)

(* lines 63-174: the walk over the components; ok is FALSE when an         *)
(* exception reached line 176 (sys.exit(1))                                *)
RECURSIVE Walk(_, _, _, _)
Walk(comps, acc, after, before) ==
  IF comps = <<>> THEN [ok |-> TRUE, events |-> acc]
  ELSE LET c == Head(comps)
       IN IF c.name # "VEVENT" THEN Walk(Tail(comps), acc, after, before)
          ELSE IF ComponentRaises(c, after, before)
          THEN [ok |-> FALSE, events |-> <<>>]
          ELSE IF c.rrule.present
          THEN Walk(Tail(comps), RecurringEvents(c, acc, after, before), after, before)
          ELSE Walk(Tail(comps), RegularEvents(c, acc, after, before), after, before)

(* Calendar.from_ical raises on text that is no calendar *)
ParseIcalData(ical_data, after, before) ==
  IF ~ical_data.decodable THEN [ok |-> FALSE, events |-> <<>>]
  ELSE Walk(ical_data.components, <<>>, after, before)

----------------------------------------------------------------------------
(* format_events *)

Digits == <<"0", "1", "2", "3", "4", "5", "6", "7", "8", "9">>

(* the variant of TwoDigits that does not pad: C7's order of the sections  *)
(* must fail with it                                                       *)
TwoDigitsUnpadded(n) ==
  IF n < 10 THEN <<Digits[n + 1]>>
  ELSE <<Digits[((n \div 10) % 10) + 1], Digits[(n % 10) + 1]>>

(* a number printed zero-padded to two digits, most significant first, as  *)
(* strftime prints the fields of %Y-%m-%d and %H:%M                        *)
TwoDigits(n) == <<Digits[((n \div 10) % 10) + 1], Digits[(n % 10) + 1]>>

(* strftime('%Y-%m-%d'): the calendar date of the value's own clock *)
StrftimeDate(v) == TwoDigits(v.clock \div TicksPerDay)

(* strftime('%H:%M'): the time of day of the value's own clock *)
StrftimeTime(v) == TwoDigits(v.clock % TicksPerDay)

StrftimeDateTime(v) == StrftimeDate(v) \o <<" ">> \o StrftimeTime(v)

(* lines 186-208 *)
FormatEvent(event) ==
  LET start_str == IF event.all_day
                   THEN StrftimeDate(event.start) \o <<" (All day)">>
                   ELSE StrftimeDateTime(event.start)
      end_str == IF ~Present(event.end) THEN <<"N/A">>
                 ELSE IF event.all_day
                 THEN StrftimeDate(event.end) \o <<" (All day)">>
                 ELSE StrftimeDateTime(event.end)
      organizer == IF Contains(event.organizer, "MAILTO:")
                   THEN Split(event.organizer, "MAILTO:")[2]
                   ELSE event.organizer
  IN [Summary |-> event.summary, Start |-> start_str, End |-> end_str,
      Location |-> event.location, Organizer |-> organizer,
      Description |-> event.description]

FormatEvents(evs) == [i \in 1..Len(evs) |-> FormatEvent(evs[i])]

----------------------------------------------------------------------------
(* save_to_markdown *)

Teams == "Join Microsoft Teams Meeting"
Zoom == "Join Zoom Meeting"
ZoomDe == "Sie wurden zu einem Zoom-Meeting eingeladen"
Markers == {Teams, Zoom, ZoomDe}

(* lines 233-236: the date part of the Start field *)
DateStr(event) ==
  IF Contains(event.Start, " (All day)")
  THEN Split(event.Start, " (All day)")[1]
  ELSE Split(event.Start, " ")[1]

CharOrd(ch) == CHOOSE i \in 1..Len(Digits) : Digits[i] = ch

(* the order of str: character by character, a proper prefix first *)
RECURSIVE StrLess(_, _)
StrLess(a, b) ==
  IF a = <<>> THEN b # <<>>
  ELSE IF b = <<>> THEN FALSE
  ELSE IF Head(a) = Head(b) THEN StrLess(Tail(a), Tail(b))
  ELSE CharOrd(Head(a)) < CharOrd(Head(b))

(* line 244: sorted(events_by_day.keys()) *)
RECURSIVE SortedDays(_)
SortedDays(keys) ==
  IF keys = {} THEN <<>>
  ELSE LET least == CHOOSE k \in keys : \A o \in keys \ {k} : StrLess(k, o)
       IN <<least>> \o SortedDays(keys \ {least})

(* line 249: strptime(day, '%Y-%m-%d') *)
RECURSIVE ParseDigits(_, _)
ParseDigits(s, acc) ==
  IF s = <<>> THEN acc
  ELSE ParseDigits(Tail(s), acc * 10 + (CharOrd(Head(s)) - 1))

Strptime(day) == ParseDigits(day, 0)

(* lines 281-286: the description cut at a marker *)
CutDescription(description) ==
  IF Contains(description, Teams) THEN Split(description, Teams)[1]
  ELSE IF Contains(description, Zoom) THEN Split(description, Zoom)[1]
  ELSE IF Contains(description, ZoomDe) THEN Split(description, ZoomDe)[1]
  ELSE description

(* lines 256-292: one event's subsection; an absent line is the empty text *)
Subsection(event) ==
  [title |-> event.Summary,
   time |-> IF Contains(event.Start, " (All day)") THEN <<"All day">>
            ELSE Split(event.Start, " ")[2] \o <<" - ">>
                 \o (IF event.End # <<"N/A">> THEN Split(event.End, " ")[2]
                     ELSE <<"N/A">>),
   location |-> event.Location,
   organizer |-> event.Organizer,
   hasDetails |-> event.Description # <<>>,
   details |-> IF event.Description # <<>>
               THEN CutDescription(event.Description) ELSE <<>>]

(* lines 247-292: the section of one day *)
DaySection(evs, day) ==
  LET OnDay(e) == DateStr(e) = day
      ofDay == SelectSeq(evs, OnDay)
  IN [weekday |-> Weekday(Strptime(day)),
      date |-> Strptime(day),
      items |-> [i \in 1..Len(ofDay) |-> Subsection(ofDay[i])]]

(* lines 219-295: the document written for a non-empty list; the minute of *)
(* generation printed in the footer is not represented                     *)
Document(evs, today) ==
  LET sorted_days == SortedDays({DateStr(evs[i]) : i \in 1..Len(evs)})
  IN [exists |-> TRUE,
      title |-> <<StartOfWeek(today), EndOfWeek(today)>>,
      sections |-> [k \in 1..Len(sorted_days) |-> DaySection(evs, sorted_days[k])],
      count |-> Len(evs)]

(* no file at the output path *)
NoFile == [exists |-> FALSE, title |-> <<0, 0>>, sections |-> <<>>, count |-> 0]

----------------------------------------------------------------------------
(* Inputs: the feeds a run may fetch and the lists a rendering may get *)

WindowStart == GetCurrentWeekRange(WeekIndex * (WeekSpan + 1)).start
WindowEnd == GetCurrentWeekRange(WeekIndex * (WeekSpan + 1)).end

SummaryOf(i) == <<"Event", Digits[i + 1]>>
PlainText == <<"text">>
SomeOrganizer == <<"MAILTO:", "organizer">>

NoRule == [present |-> FALSE, step |-> 0, count |-> 0, valid |-> TRUE]
Steps == {1, TicksPerDay, (WeekSpan + 1) * TicksPerDay}
GoodRules == [present : {TRUE}, step : Steps, count : 1..MaxCount, valid : {TRUE}]
MalformedRule == [present |-> TRUE, step |-> 1, count |-> 1, valid |-> FALSE]
Rules == {NoRule, MalformedRule} \cup GoodRules

Starts ==
  {Date(d) : d \in Days} \cup {Naive(c) : c \in Clocks}
  \cup {Aware(c, o) : c \in Clocks, o \in Offs}

(* the ends tried with a start: absent, up to MaxDur ticks of clock after  *)
(* it, or at the last tick of the time axis                                *)
EndsFor(s) ==
  {None} \cup {e \in Starts : \/ e.clock - s.clock \in 0..MaxDur
                              \/ e.clock = MaxInstant}

Component(name, dtstart, dtend, rrule) ==
  [name |-> name, summary |-> SummaryOf(1), description |-> PlainText,
   location |-> <<>>, organizer |-> SomeOrganizer,
   dtstart |-> dtstart, dtend |-> dtend, rrule |-> rrule]

(* a few components late in the week, for feeds of several components *)
CoreComponents ==
  {Component("VEVENT", Naive(WindowEnd - 1), e, r) :
     e \in {None, Naive(MaxInstant)},
     r \in {NoRule, MalformedRule,
            [present |-> TRUE, step |-> 1, count |-> MaxCount, valid |-> TRUE]}}
  \cup {Component("VTODO", Naive(WindowEnd - 1), None, NoRule),
        Component("VEVENT", None, None, NoRule)}

(* the components of a feed carry their position as summary *)
Labelled(comps) ==
  [i \in 1..Len(comps) |-> [comps[i] EXCEPT !.summary = SummaryOf(i)]]

Feed(comps) == [decodable |-> TRUE, components |-> Labelled(comps)]
Undecodable == [decodable |-> FALSE, components |-> <<>>]


----------------------------------------------------------------------------
(* The run of main *)

NoData == [decodable |-> FALSE, components |-> <<>>]
Running == 0 - 1

Init ==
  /\ pc = "fetch"
  /\ run = 1
  /\ calendar_data = NoData
  /\ start_date = 0
  /\ end_date = 0
  /\ events = <<>>
  /\ formatted_events = <<>>
  /\ file = NoFile
  /\ wrote = FALSE
  /\ notice = FALSE
  /\ echoed = NoFile
  /\ exitCode = Running

(* lines 43-51, 332: the feed text f arrives *)
FetchCalendar(f) ==
  /\ pc = "fetch"
  /\ calendar_data' = f
  /\ pc' = "week"
  /\ UNCHANGED <<run, start_date, end_date, events, formatted_events, file,
                 wrote, notice, echoed, exitCode>>

(* lines 52-54: a transport or HTTP error, sys.exit(1) *)
FetchError ==
  /\ pc = "fetch"
  /\ pc' = "exit"
  /\ exitCode' = 1
  /\ UNCHANGED <<run, calendar_data, start_date, end_date, events,
                 formatted_events, file, wrote, notice, echoed>>

(* line 335: the window of the week the clock reads *)
GetWeek ==
  /\ pc = "week"
  /\ \E today \in Todays :
       /\ start_date' = GetCurrentWeekRange(today).start
       /\ end_date' = GetCurrentWeekRange(today).end
  /\ pc' = "parse"
  /\ UNCHANGED <<run, calendar_data, events, formatted_events, file, wrote,
                 notice, echoed, exitCode>>

(* line 339 *)
Parse ==
  /\ pc = "parse"
  /\ LET r == ParseIcalData(calendar_data, start_date, end_date)
     IN \/ /\ r.ok
           /\ events' = r.events
           /\ pc' = "format"
           /\ UNCHANGED exitCode
        \/ /\ ~r.ok
           /\ exitCode' = 1
           /\ pc' = "exit"
           /\ UNCHANGED events
  /\ UNCHANGED <<run, calendar_data, start_date, end_date, formatted_events,
                 file, wrote, notice, echoed>>

(* line 342 *)
Format ==
  /\ pc = "format"
  /\ formatted_events' = FormatEvents(events)
  /\ pc' = "save"
  /\ UNCHANGED <<run, calendar_data, start_date, end_date, events, file,
                 wrote, notice, echoed, exitCode>>

(* line 348, save_to_markdown: the notice for an empty list, the document  *)
(* written over the file otherwise, or sys.exit(1) when the file cannot be *)
(* opened for writing                                                      *)
SaveToMarkdown ==
  /\ pc = "save"
  /\ \/ /\ formatted_events = <<>>
        /\ notice' = TRUE
        /\ pc' = "exists"
        /\ UNCHANGED <<file, wrote, exitCode>>
     \/ /\ formatted_events # <<>>
        /\ \E today \in Todays : file' = Document(formatted_events, today)
        /\ wrote' = TRUE
        /\ pc' = "exists"
        /\ UNCHANGED <<notice, exitCode>>
     \/ /\ formatted_events # <<>>
        /\ exitCode' = 1
        /\ pc' = "exit"
        /\ UNCHANGED <<file, wrote, notice>>
  /\ UNCHANGED <<run, calendar_data, start_date, end_date, events,
                 formatted_events, echoed>>

(* lines 350-352 *)
CheckExists ==
  /\ pc = "exists"
  /\ \/ /\ ~file.exists
        /\ exitCode' = 1
        /\ pc' = "exit"
     \/ /\ file.exists
        /\ pc' = "echo"
        /\ UNCHANGED exitCode
  /\ UNCHANGED <<run, calendar_data, start_date, end_date, events,
                 formatted_events, file, wrote, notice, echoed>>

(* lines 355-361: with --stdout the file is read back and printed; main    *)
(* returns, exit status 0                                                  *)
Echo ==
  /\ pc = "echo"
  /\ \E stdout \in BOOLEAN : echoed' = IF stdout THEN file ELSE NoFile
  /\ exitCode' = 0
  /\ pc' = "exit"
  /\ UNCHANGED <<run, calendar_data, start_date, end_date, events,
                 formatted_events, file, wrote, notice>>

(* the program is started again with the same output path *)
NextRun ==
  /\ pc = "exit"
  /\ run < MaxRuns
  /\ run' = run + 1
  /\ pc' = "fetch"
  /\ calendar_data' = NoData
  /\ start_date' = 0
  /\ end_date' = 0
  /\ events' = <<>>
  /\ formatted_events' = <<>>
  /\ wrote' = FALSE
  /\ notice' = FALSE
  /\ echoed' = NoFile
  /\ exitCode' = Running
  /\ UNCHANGED file

(* the feeds of a run: one event component of any shape, up to MaxDefs of  *)
(* the core components, or text that is no calendar                        *)
FetchFeed ==
  /\ pc = "fetch"
  /\ \/ \E s \in Starts : \E e \in EndsFor(s) : \E r \in Rules :
          FetchCalendar(Feed(<<Component("VEVENT", s, e, r)>>))
     \/ \E n \in 0..MaxDefs : \E comps \in [1..n -> CoreComponents] :
          FetchCalendar(Feed(comps))
     \/ FetchCalendar(Undecodable)

(* the feeds of the runs that follow one another: at most one component *)
FetchSmallFeed ==
  /\ pc = "fetch"
  /\ \/ \E n \in 0..1 : \E comps \in [1..n -> CoreComponents] :
          FetchCalendar(Feed(comps))
     \/ FetchCalendar(Undecodable)

Next ==
  \/ FetchFeed
  \/ FetchError
  \/ GetWeek
  \/ Parse
  \/ Format
  \/ SaveToMarkdown
  \/ CheckExists
  \/ Echo

Spec == Init /\ [][Next]_vars

NextRuns ==
  \/ FetchSmallFeed
  \/ FetchError
  \/ GetWeek
  \/ Parse
  \/ Format
  \/ SaveToMarkdown
  \/ CheckExists
  \/ Echo
  \/ NextRun

SpecRuns == Init /\ [][NextRuns]_vars

----------------------------------------------------------------------------
(* The rendering alone: format_events and save_to_markdown applied to a    *)
(* list of occurrences as parse_ical_data returns them                     *)

Occurrence(clock, allDay, description) ==
  [summary |-> SummaryOf(1), description |-> description, location |-> <<>>,
   organizer |-> SomeOrganizer, start |-> Aware(clock, 0), end |-> None,
   all_day |-> allDay]

DatedOccurrences ==
  {Occurrence(d * TicksPerDay, a, PlainText) : d \in Todays, a \in BOOLEAN}
Descriptions == UNION {[1..n -> {"text"} \cup Markers] : n \in 0..MaxDescLen}
DescribedOccurrences == {Occurrence(WindowStart, FALSE, t) : t \in Descriptions}


InitRender ==
  /\ pc = "format"
  /\ run = 1
  /\ calendar_data = NoData
  /\ start_date = WindowStart
  /\ end_date = WindowEnd
  /\ \/ \E n \in 0..MaxEvents : \E l \in [1..n -> DatedOccurrences] :
          events = Labelled(l)
     \/ \E o \in DescribedOccurrences : events = <<o>>
  /\ formatted_events = <<>>
  /\ file = NoFile
  /\ wrote = FALSE
  /\ notice = FALSE
  /\ echoed = NoFile
  /\ exitCode = Running

NextRender ==
  \/ Format
  \/ SaveToMarkdown

SpecRender == InitRender /\ [][NextRender]_vars

----------------------------------------------------------------------------
(* Vocabulary of the properties *)

(* the week has been determined, so an exit is one at or after the parse *)
ParseDone == pc \in {"format", "save", "exists", "echo"} \/ (pc = "exit" /\ end_date # 0)

(* the run ended with the parse's sys.exit(1) *)
ParseAborted ==
  pc = "exit" /\ end_date # 0 /\ ~ParseIcalData(calendar_data, start_date, end_date).ok

InWindow(t) == start_date <= t /\ t <= end_date

(* the calendar day of a value's own clock *)
LocalDay(v) == v.clock \div TicksPerDay

Monday == start_date \div TicksPerDay
Sunday == end_date \div TicksPerDay

(* all the subsections of the file, section after section *)
RECURSIVE Flatten(_)
Flatten(sections) ==
  IF sections = <<>> THEN <<>>
  ELSE Head(sections).items \o Flatten(Tail(sections))

----------------------------------------------------------------------------
(* Properties of main across runs (SpecRuns) *)

(* C1: a run whose fetch and parse succeed and whose parse yields no       *)
(* occurrence ends with exit status 0, writes no file and prints the       *)
(* notice, whether or not a file exists at the output path.                *)
C1_EmptyWeekExitsZero ==
  (/\ pc = "exit"
   /\ end_date # 0
   /\ ParseIcalData(calendar_data, start_date, end_date).ok
   /\ ParseIcalData(calendar_data, start_date, end_date).events = <<>>)
  => (exitCode = 0 /\ ~wrote /\ notice)

(* C8: after every run that exits with status 0 the file (and what         *)
(* --stdout echoed) is the document rendered from this run's occurrences,  *)
(* written by this run.                                                    *)
C8_FileIsThisRunsDocument ==
  (pc = "exit" /\ exitCode = 0)
  => /\ wrote
     /\ \E today \in Todays : file = Document(formatted_events, today)
     /\ echoed \in {NoFile, file}

----------------------------------------------------------------------------
(* Properties of the rendering (SpecRender) *)

HasMarker(text) == \E i \in 1..Len(text) : text[i] \in Markers

(* the text before the earliest marker, whichever marker it is *)
BeforeFirstMarker(text) ==
  LET first == CHOOSE i \in 1..Len(text) :
                 text[i] \in Markers /\ \A j \in 1..(i - 1) : text[j] \notin Markers
  IN SubSeq(text, 1, first - 1)

(* C6: for an occurrence whose description contains one or more of the    *)
(* three markers, the details block holds exactly the text before the      *)
(* earliest position at which any of the markers occurs.                   *)
C6_CutAtEarliestMarker ==
  (wrote /\ Len(events) = 1 /\ HasMarker(events[1].description))
  => /\ file.sections[1].items[1].hasDetails
     /\ file.sections[1].items[1].details = BeforeFirstMarker(events[1].description)

StartDays == {LocalDay(events[i].start) : i \in 1..Len(events)}

(* the places (section, item) whose subsection is titled with a summary *)
PlacesOf(summary) ==
  {<<k, j>> \in (1..Len(file.sections)) \X (1..MaxEvents + 1) :
     /\ j <= Len(file.sections[k].items)
     /\ file.sections[k].items[j].title = summary}

(* C7: the document of a non-empty list has one day section for each       *)
(* distinct start date of the occurrences and no other, the sections are   *)
(* in ascending date order, every occurrence is exactly one subsection,    *)
(* under the section of its start date, and the footer's count is the      *)
(* number of subsections.                                                  *)
C7_SectionsPerDayAscending ==
  (wrote /\ events # <<>>)
  => /\ {file.sections[k].date : k \in 1..Len(file.sections)} = StartDays
     /\ Len(file.sections) = Cardinality(StartDays)
     /\ \A k, l \in 1..Len(file.sections) :
          k < l => file.sections[k].date < file.sections[l].date
     /\ \A i \in 1..Len(events) :
          /\ Cardinality(PlacesOf(events[i].summary)) = 1
          /\ \A place \in PlacesOf(events[i].summary) :
               file.sections[place[1]].date = LocalDay(events[i].start)
     /\ file.count = Len(Flatten(file.sections))
     /\ file.count = Len(events)

(* a document of two day sections on either side of a change in the number *)
(* of digits of the day, one of them with two occurrences, rendered from a *)
(* list that is not in date order                                          *)
C7_Witness ==
  /\ wrote
  /\ Len(events) = 3
  /\ Len(file.sections) = 2
  /\ Len(file.sections[2].items) = 2
  /\ file.sections[1].date < 10
  /\ file.sections[2].date >= 10
  /\ LocalDay(events[1].start) > LocalDay(events[2].start)

----------------------------------------------------------------------------
(* Properties of parse_ical_data within a run (Spec) *)

(* the feed is a single event component that has a start *)
OneEvent ==
  /\ calendar_data.decodable
  /\ Len(calendar_data.components) = 1
  /\ calendar_data.components[1].name = "VEVENT"
  /\ Present(calendar_data.components[1].dtstart)

TheEvent == calendar_data.components[1]

(* the instant a start or end denotes: a bare date its midnight and a      *)
(* naive date-time its clock reading, both in UTC; a zone-carrying value   *)
(* its true instant                                                        *)
NormalizedInstant(v) == IF v.kind = "aware" THEN v.clock - v.off ELSE v.clock

(* the end likewise; the end of an all-day definition is taken at the      *)
(* midnight of its calendar date                                           *)
NormalizedEnd(c) ==
  IF IsDate(c.dtstart) THEN LocalDay(c.dtend) * TicksPerDay
  ELSE NormalizedInstant(c.dtend)

(* C2: a non-recurring definition yields exactly one occurrence if its     *)
(* normalized start, or its normalized end when present, lies in the       *)
(* window (bounds inclusive), and none otherwise.                          *)
C2_RegularEventInWindow ==
  (ParseDone /\ OneEvent /\ ~TheEvent.rrule.present)
  => /\ ~ParseAborted
     /\ Len(events) =
          IF \/ InWindow(NormalizedInstant(TheEvent.dtstart))
             \/ /\ Present(TheEvent.dtend)
                /\ InWindow(NormalizedEnd(TheEvent))
          THEN 1 ELSE 0

(* the instance starts of a rule anchored at an instant *)
InstancesFrom(rule, anchor) == {anchor + k * rule.step : k \in 0..(rule.count - 1)}

(* building or enumerating the rule of c fails: the rule is malformed, or  *)
(* adding the duration to one of its instances in the window overflows     *)
ExpansionFails(c) ==
  /\ c.name = "VEVENT"
  /\ c.rrule.present
  /\ Present(c.dtstart)
  /\ \/ ~c.rrule.valid
     \/ \E t \in InstancesFrom(c.rrule, c.dtstart.clock) :
          /\ InWindow(t)
          /\ DurationTruthy(Duration(c))
          /\ Overflows(t + Duration(c).ticks)

(* C3: the occurrences of a recurring definition are exactly the instance  *)
(* starts of the rule anchored at the definition's original start instant  *)
(* that fall in the window, one occurrence per instance (the definitions   *)
(* whose expansion fails are C5's).                                        *)
C3_InstancesFromTrueStart ==
  (ParseDone /\ OneEvent /\ TheEvent.rrule.present /\ ~ExpansionFails(TheEvent))
  => LET expected == {t \in InstancesFrom(TheEvent.rrule,
                                         NormalizedInstant(TheEvent.dtstart)) :
                        InWindow(t)}
     IN /\ {Instant(events[i].start) : i \in 1..Len(events)} = expected
        /\ Len(events) = Cardinality(expected)

(* C4: an occurrence expanded from a recurring definition ends at its      *)
(* start plus (original end - original start) when the definition has an   *)
(* end and start and end are both date-times, a duration of zero included; *)
(* otherwise its end is absent.                                            *)
C4_OccurrenceEnd ==
  (ParseDone /\ OneEvent /\ TheEvent.rrule.present)
  => \A i \in 1..Len(events) :
       IF /\ Present(TheEvent.dtend)
          /\ IsDatetime(TheEvent.dtstart)
          /\ IsDatetime(TheEvent.dtend)
       THEN /\ Present(events[i].end)
            /\ Instant(events[i].end)
                 = Instant(events[i].start) + Duration(TheEvent).ticks
       ELSE ~Present(events[i].end)

RECURSIVE WithoutFailing(_)
WithoutFailing(comps) ==
  IF comps = <<>> THEN <<>>
  ELSE (IF ExpansionFails(Head(comps)) THEN <<>> ELSE <<Head(comps)>>)
       \o WithoutFailing(Tail(comps))

(* C5: a definition whose rule fails to build or enumerate contributes no  *)
(* occurrence, the run does not abort, and the other definitions           *)
(* contribute what they would if the failing definition were absent.       *)
C5_FailedExpansionContributesNothing ==
  (/\ ParseDone
   /\ calendar_data.decodable
   /\ \E i \in 1..Len(calendar_data.components) :
        ExpansionFails(calendar_data.components[i])
   /\ \A i \in 1..Len(calendar_data.components) :
        ~ComponentRaises(calendar_data.components[i], start_date, end_date))
  => /\ ~ParseAborted
     /\ events = Walk(WithoutFailing(calendar_data.components), <<>>,
                      start_date, end_date).events

(* the position in the feed of the definition an occurrence comes from *)
DefinitionOf(event) ==
  CHOOSE i \in 1..Len(calendar_data.components) :
    calendar_data.components[i].summary = event.summary

(* C9: the list parse_ical_data returns is in definition order: the        *)
(* occurrences of a definition come before those of every later            *)
(* definition, whatever their starts, so those of one definition are       *)
(* contiguous.                                                             *)
C9_DefinitionOrder ==
  (ParseDone /\ ~ParseAborted)
  => \A i, j \in 1..Len(events) :
       i < j => DefinitionOf(events[i]) <= DefinitionOf(events[j])

(* two occurrences of a recurring definition followed by the occurrence of *)
(* a later definition that starts before the second of them                *)
C9_Witness ==
  /\ pc = "format"
  /\ Len(events) = 3
  /\ DefinitionOf(events[1]) = DefinitionOf(events[2])
  /\ DefinitionOf(events[2]) < DefinitionOf(events[3])
  /\ Instant(events[2].start) > Instant(events[3].start)

----------------------------------------------------------------------------
(* Properties of the whole pipeline (Spec) *)

SectionDates == {file.sections[k].date : k \in 1..Len(file.sections)}

(* C10 as stated: every day section of the document is headed by a date    *)
(* within the Monday-to-Sunday span of the window, which the title names.  *)
C10_SectionsWithinWeek ==
  wrote => /\ file.title = <<Monday, Sunday>>
           /\ \A d \in SectionDates : Monday <= d /\ d <= Sunday

(* C10 amended: the title names the window's Monday-to-Sunday span; every  *)
(* day section is headed by the date, on the occurrence's own clock, of    *)
(* the start of an occurrence whose start or end instant lies in the       *)
(* window; that date is within the span whenever the start instant lies    *)
(* in the window and the start's clock is UTC.                             *)
C10_SectionsAreStartDates ==
  wrote => /\ file.title = <<Monday, Sunday>>
           /\ SectionDates = {LocalDay(events[i].start) : i \in 1..Len(events)}
           /\ \A i \in 1..Len(events) :
                /\ \/ InWindow(Instant(events[i].start))
                   \/ /\ Present(events[i].end)
                      /\ InWindow(Instant(events[i].end))
                /\ (events[i].start.off = 0 /\ InWindow(Instant(events[i].start)))
                   => /\ Monday <= LocalDay(events[i].start)
                      /\ LocalDay(events[i].start) <= Sunday

(* an occurrence that starts at the last instant of the window on a UTC    *)
(* clock, rendered under Sunday                                            *)
C10_Witness ==
  /\ wrote
  /\ Len(events) = 1
  /\ events[1].start.off = 0
  /\ Instant(events[1].start) = end_date
  /\ SectionDates = {Sunday}

====
